---- MODULE Spec2Model ----
(***************************************************************************)
(* A model of the Shadowsocks local client (ss-local) of this repository:  *)
(* the AEAD stream framing (AEADEncryptor / AEADDecryptor), the key        *)
(* schedule, and the SOCKS5 front end with its relay (ShadowsocksLocal).   *)
(*                                                                         *)
(* Buffers are sequences of bytes (0..255).  The cryptographic primitives  *)
(* of the Node.js crypto library (MD5, HKDF-SHA1, AES-GCM,                 *)
(* ChaCha20-Poly1305) are replaced by small arithmetic stand-ins that keep *)
(* what the program relies on: they are deterministic, they depend on      *)
(* every input, decryption inverts encryption under the same key and       *)
(* nonce, and the tag changes when one byte of the ciphertext changes.     *)
(***************************************************************************)
EXTENDS Integers, Sequences, FiniteSets, TLC

VARIABLES
    enc,        \* the AEADEncryptor under test (a record, see NewEncryptor)
    dec,        \* the AEADDecryptor under test (a record, see NewDecryptor)
    plainIn,    \* the buffers written to enc so far, in order
    encOut,     \* the buffers enc has pushed so far, in order
    encErr,     \* TRUE once a _transform of enc has called back with an error
    sealLog,    \* one entry per AEAD seal operation of enc, in order
    wire,       \* bytes pushed by enc (or sent by a peer) and not yet fed to dec
    decOut,     \* the buffers dec has pushed so far, in order
    decErr,     \* TRUE once a _transform of dec has called back with an error
    tamper,     \* whether a byte in flight was altered, and its position in the stream
    tun,        \* one tunnel of ShadowsocksLocal (a record, see NewTunnel)
    local       \* a ShadowsocksLocal with all its tunnels (a record, see start)

vars == <<enc, dec, plainIn, encOut, encErr, sealLog, wire, decOut, decErr, tamper, tun,
          local>>

(***************************************************************************)
(* Bytes and buffers                                                       *)
(***************************************************************************)
Byte == 0..255

Min(a, b) == IF a < b THEN a ELSE b

\* Buffer.alloc(n, b)
Fill(n, b) == [i \in 1..n |-> b]

\* buf.slice(from, to) with 0-based offsets, end exclusive, clamped like Buffer.slice
Slice(buf, from, to) == SubSeq(buf, from + 1, Min(to, Len(buf)))

\* buf.slice(from)
SliceFrom(buf, from) == SubSeq(buf, from + 1, Len(buf))

\* Buffer.concat(list)
RECURSIVE Concat(_)
Concat(list) == IF list = <<>> THEN <<>> ELSE Head(list) \o Concat(Tail(list))

\* the sum of buf[lo..hi], by halving (the recursion stays shallow on long buffers)
RECURSIVE SumRange(_, _, _)
SumRange(buf, lo, hi) ==
    IF lo > hi THEN 0
    ELSE IF lo = hi THEN buf[lo]
    ELSE LET mid == (lo + hi) \div 2
         IN  (SumRange(buf, lo, mid) + SumRange(buf, mid + 1, hi)) % 65536

SumBytes(buf) == SumRange(buf, 1, Len(buf))

\* a position-weighted checksum: it tells apart buffers with the same bytes in another order
RECURSIVE WSumRange(_, _, _)
WSumRange(buf, lo, hi) ==
    IF lo > hi THEN 0
    ELSE IF lo = hi THEN (buf[lo] * ((lo % 251) + 1)) % 65536
    ELSE LET mid == (lo + hi) \div 2
         IN  (WSumRange(buf, lo, mid) + WSumRange(buf, mid + 1, hi)) % 65536

\* buf.writeUInt16BE(v, 0) on a 2-byte buffer; the caller checks the range
UInt16BE(v) == <<v \div 256, v % 256>>

\* buf.readUInt16BE(off)
ReadUInt16BE(buf, off) == buf[off + 1] * 256 + buf[off + 2]

(***************************************************************************)
(* src/crypto/methods.js                                                   *)
(***************************************************************************)
Methods == {"aes-128-gcm", "aes-256-gcm", "chacha20-ietf-poly1305"}

AEAD_METHODS ==
    [m \in Methods |->
        IF m = "aes-128-gcm"
        THEN [keySize |-> 16, saltSize |-> 16, nonceSize |-> 12, tagSize |-> 16]
        ELSE [keySize |-> 32, saltSize |-> 32, nonceSize |-> 12, tagSize |-> 16]]

\* crypto.createHash('md5').update(data).digest(): a 16-byte digest of data
MD5(data) ==
    LET w == WSumRange(data, 1, Len(data))
        s == SumBytes(data)
    IN  [i \in 1..16 |-> (w + (s % 256) * i + Len(data) * 7 + 31 * i) % 256]

\* the rounds d_0 .. d_n of EVP_BytesToKey, concatenated
RECURSIVE EVPRounds(_, _, _)
EVPRounds(passwordBuffer, lastRound, roundsLeft) ==
    IF roundsLeft = 0 THEN <<>>
    ELSE LET digest == MD5(lastRound \o passwordBuffer)
         IN  digest \o EVPRounds(passwordBuffer, digest, roundsLeft - 1)

\* a variant of EVP_BytesToKey whose rounds all hash the password alone
EVP_BytesToKeyNoChain(password, keyLen) ==
    Slice(MD5(password) \o MD5(password) \o MD5(password), 0, keyLen)

EVP_BytesToKey(password, keyLen) ==
    LET md5Rounds == (keyLen + 15) \div 16
        result    == EVPRounds(password, <<>>, md5Rounds)
    IN  Slice(result, 0, keyLen)

\* the 9-byte ASCII literal "ss-subkey"
SubkeyInfo == <<115, 115, 45, 115, 117, 98, 107, 101, 121>>

\* crypto.hkdfSync('sha1', ikm, salt, info, length)
HkdfSha1(ikm, salt, info, length) ==
    LET a == WSumRange(ikm, 1, Len(ikm))
        b == WSumRange(salt, 1, Len(salt))
        c == WSumRange(info, 1, Len(info))
    IN  [i \in 1..length |-> (a * 3 + b * 5 + c + i * ((b % 7) + 1) + Len(salt)) % 256]

deriveKey(password, salt, keySize) ==
    LET passwordKey == EVP_BytesToKey(password, keySize)
    IN  HkdfSha1(passwordKey, salt, SubkeyInfo, keySize)

\* createAEADCipher: the cipher (or decipher) object, before any update
createAEADCipher(method, key, nonce, isEncrypt) ==
    [algorithm  |-> IF method = "chacha20-ietf-poly1305" THEN "chacha20-poly1305" ELSE method,
     key        |-> key,
     nonce      |-> nonce,
     isEncrypt  |-> isEncrypt,
     authTagLength |-> AEAD_METHODS[method].tagSize]

\* what distinguishes one (algorithm, key, nonce) from another in the stand-in cipher
CipherMix(c) ==
    LET k == c.key
        n == c.nonce
    IN  (k[1] + 3 * k[2] + 5 * k[Len(k)]
           + n[1] + 3 * n[2] + 5 * n[3] + 7 * n[4] + 11 * n[5] + 13 * n[6] + 17 * n[7]
           + 19 * n[8] + 23 * n[9] + 29 * n[10] + 31 * n[11] + 37 * n[12]
           + (IF c.algorithm = "chacha20-poly1305" THEN 101 ELSE Len(k))) % 256

KeyStream(c, mix, i) == (c.key[((i - 1) % Len(c.key)) + 1] + mix + i) % 256

\* cipher.update(data) / decipher.update(data): a stream cipher, byte for byte
CipherUpdate(c, data) ==
    LET mix == CipherMix(c)
    IN  IF c.isEncrypt
        THEN [i \in 1..Len(data) |-> (data[i] + KeyStream(c, mix, i)) % 256]
        ELSE [i \in 1..Len(data) |-> (data[i] + 256 - KeyStream(c, mix, i)) % 256]

\* the authentication tag of ciphertext ct under the cipher's key and nonce
AuthTag(c, ct) ==
    LET base == (SumBytes(ct) + CipherMix(c) * 7 + Len(ct) * 13) % 256
    IN  [j \in 1..c.authTagLength |-> (base + j * 17) % 256]

\* decipher.setAuthTag(tag); decipher.update(ct); decipher.final() does not throw
FinalOk(c, ct, tag) == tag = AuthTag(c, ct)

(***************************************************************************)
(* The nonce counter.  chunkId is a JavaScript number; the model keeps its *)
(* exact integer value as four 16-bit limbs, least significant first,      *)
(* because the bitwise operators of updateNonce work on its low 32 bits.   *)
(***************************************************************************)
Limb == 65536

ZeroId == <<0, 0, 0, 0>>

\* this.chunkId++
RECURSIVE IncLimbs(_, _)
IncLimbs(id, i) ==
    IF i > Len(id) THEN id
    ELSE IF id[i] + 1 < Limb THEN [id EXCEPT ![i] = id[i] + 1]
    ELSE IncLimbs([id EXCEPT ![i] = 0], i + 1)

IncId(id) == IncLimbs(id, 1)

\* ToInt32(n): what `n & 0xff` and `n >> 8` see of the number n
ToInt32(id) == (IF id[2] >= 32768 THEN id[2] - Limb ELSE id[2]) * Limb + id[1]

\* the loop of updateNonce: n & 0xff, then n = n >> 8, for i < 8; zero above
RECURSIVE NonceBytes(_, _)
NonceBytes(n, i) ==
    IF i >= 12 THEN <<>>
    ELSE IF i < 8 THEN <<n % 256>> \o NonceBytes(n \div 256, i + 1)
    ELSE <<0>> \o NonceBytes(n, i + 1)

\* updateNonce() on an encryptor or decryptor record
updateNonce(s) ==
    LET id == IncId(s.chunkId)
    IN  [s EXCEPT !.chunkId = id, !.nonce = NonceBytes(ToInt32(id), 0)]

\* the 12-byte little-endian encoding of a counter held as limbs
NonceLE(id) ==
    <<id[1] % 256, id[1] \div 256, id[2] % 256, id[2] \div 256,
      id[3] % 256, id[3] \div 256, id[4] % 256, id[4] \div 256, 0, 0, 0, 0>>

(***************************************************************************)
(* src/crypto/aead.js: AEADEncryptor                                       *)
(***************************************************************************)
\* new AEADEncryptor(method, password)
NewEncryptor(method, password) ==
    [method       |-> method,
     password     |-> password,
     keySize      |-> AEAD_METHODS[method].keySize,
     saltSize     |-> AEAD_METHODS[method].saltSize,
     nonceSize    |-> AEAD_METHODS[method].nonceSize,
     tagSize      |-> AEAD_METHODS[method].tagSize,
     salt         |-> <<>>,
     key          |-> <<>>,
     nonce        |-> Fill(AEAD_METHODS[method].nonceSize, 0),
     isFirstChunk |-> TRUE,
     chunkId      |-> ZeroId]

\* initializeEncryption(), with the bytes crypto.randomBytes returns
initializeEncryption(e, randomBytes) ==
    [e EXCEPT !.salt    = randomBytes,
              !.key     = deriveKey(e.password, randomBytes, e.keySize),
              !.nonce   = Fill(e.nonceSize, 0),
              !.chunkId = ZeroId]

\* a variant of EncFirstChunk that never clears isFirstChunk
EncFirstChunkNoFlag(e, randomBytes) ==
    IF e.isFirstChunk
    THEN [enc |-> initializeEncryption(e, randomBytes), out |-> <<randomBytes>>]
    ELSE [enc |-> e, out |-> <<>>]

\* the first block of _transform: initialise and push the salt on the first chunk
EncFirstChunk(e, randomBytes) ==
    IF e.isFirstChunk
    THEN [enc |-> [initializeEncryption(e, randomBytes) EXCEPT !.isFirstChunk = FALSE],
          out |-> <<randomBytes>>]
    ELSE [enc |-> e, out |-> <<>>]

\* one AEAD seal: createAEADCipher, update, final, getAuthTag
Seal(e, data) ==
    LET cipher == createAEADCipher(e.method, e.key, e.nonce, TRUE)
        ct     == CipherUpdate(cipher, data)
    IN  [ct |-> ct, tag |-> AuthTag(cipher, ct)]

\* what one seal leaves in the log of seal operations
SealEntry(e, what, data) ==
    [key |-> e.key, chunkId |-> e.chunkId, nonce |-> e.nonce, what |-> what,
     size |-> Len(data),
     lengthField |-> IF what = "length" THEN ReadUInt16BE(data, 0) ELSE 0]

\* a variant of EncSealChunk that pushes the payload tag before the encrypted payload
EncSealChunkTagFirst(e, chunk) ==
    LET lengthBuf == UInt16BE(Len(chunk))
        len       == Seal(e, lengthBuf)
        e1        == updateNonce(e)
        payload   == Seal(e1, chunk)
        e2        == updateNonce(e1)
    IN  [enc   |-> e2,
         out   |-> <<len.ct \o len.tag \o payload.tag \o payload.ct>>,
         seals |-> <<SealEntry(e, "length", lengthBuf), SealEntry(e1, "payload", chunk)>>]

\* steps 1 to 5 of _transform for a non-empty chunk that writeUInt16BE accepts
EncSealChunk(e, chunk) ==
    LET lengthBuf == UInt16BE(Len(chunk))
        len       == Seal(e, lengthBuf)
        e1        == updateNonce(e)
        payload   == Seal(e1, chunk)
        e2        == updateNonce(e1)
    IN  [enc   |-> e2,
         out   |-> <<len.ct \o len.tag \o payload.ct \o payload.tag>>,
         seals |-> <<SealEntry(e, "length", lengthBuf), SealEntry(e1, "payload", chunk)>>]

\* AEADEncryptor._transform(chunk): the new state, the buffers pushed, whether the
\* callback got an error, and the seal operations done
EncTransform(e, chunk, randomBytes) ==
    LET first == EncFirstChunk(e, randomBytes)
    IN  IF Len(chunk) = 0
        THEN [enc |-> first.enc, out |-> first.out, err |-> FALSE, seals |-> <<>>]
        ELSE IF Len(chunk) > 65535
        THEN \* writeUInt16BE throws a RangeError, caught by the try block
             [enc |-> first.enc, out |-> first.out, err |-> TRUE, seals |-> <<>>]
        ELSE LET sealed == EncSealChunk(first.enc, chunk)
             IN  [enc |-> sealed.enc, out |-> first.out \o sealed.out,
                  err |-> FALSE, seals |-> sealed.seals]

(***************************************************************************)
(* src/crypto/aead.js: AEADDecryptor                                       *)
(***************************************************************************)
\* new AEADDecryptor(method, password)
NewDecryptor(method, password) ==
    [method          |-> method,
     password        |-> password,
     keySize         |-> AEAD_METHODS[method].keySize,
     saltSize        |-> AEAD_METHODS[method].saltSize,
     nonceSize       |-> AEAD_METHODS[method].nonceSize,
     tagSize         |-> AEAD_METHODS[method].tagSize,
     salt            |-> <<>>,
     key             |-> <<>>,
     nonce           |-> Fill(AEAD_METHODS[method].nonceSize, 0),
     isFirstChunk    |-> TRUE,
     chunkId         |-> ZeroId,
     buffer          |-> <<>>,
     expectingLength |-> TRUE,
     payloadLength   |-> 0]

\* initializeDecryption(salt)
initializeDecryption(d, salt) ==
    [d EXCEPT !.salt    = salt,
              !.key     = deriveKey(d.password, salt, d.keySize),
              !.nonce   = Fill(d.nonceSize, 0),
              !.chunkId = ZeroId]

\* stream.push(chunk) of a Readable in byte mode: an empty chunk adds nothing
Push(out, chunk) == IF Len(chunk) = 0 THEN out ELSE Append(out, chunk)

\* the length branch of the loop, entered with at least 2 + tagSize bytes buffered
DecLength(d) ==
    LET lengthSize      == 2 + d.tagSize
        encryptedLength == Slice(d.buffer, 0, 2)
        lengthTag       == Slice(d.buffer, 2, lengthSize)
        lengthDecipher  == createAEADCipher(d.method, d.key, d.nonce, FALSE)
        lengthBuf       == CipherUpdate(lengthDecipher, encryptedLength)
    IN  IF FinalOk(lengthDecipher, encryptedLength, lengthTag)
        THEN [dec |-> [updateNonce(d) EXCEPT !.payloadLength   = ReadUInt16BE(lengthBuf, 0),
                                             !.expectingLength = FALSE,
                                             !.buffer          = SliceFrom(d.buffer, lengthSize)],
              err |-> FALSE]
        ELSE [dec |-> d, err |-> TRUE]

\* the payload branch of the loop, entered with payloadLength + tagSize bytes buffered
DecPayload(d) ==
    LET payloadSize      == d.payloadLength + d.tagSize
        encryptedPayload == Slice(d.buffer, 0, d.payloadLength)
        payloadTag       == Slice(d.buffer, d.payloadLength, payloadSize)
        payloadDecipher  == createAEADCipher(d.method, d.key, d.nonce, FALSE)
        payload          == CipherUpdate(payloadDecipher, encryptedPayload)
    IN  IF FinalOk(payloadDecipher, encryptedPayload, payloadTag)
        THEN [dec |-> [updateNonce(d) EXCEPT !.expectingLength = TRUE,
                                             !.buffer          = SliceFrom(d.buffer, payloadSize)],
              push |-> payload, err |-> FALSE]
        ELSE [dec |-> d, push |-> <<>>, err |-> TRUE]

\* the while loop of _transform
RECURSIVE DecLoop(_, _)
DecLoop(d, out) ==
    IF Len(d.buffer) = 0 THEN [dec |-> d, out |-> out, err |-> FALSE]
    ELSE IF d.expectingLength
    THEN IF Len(d.buffer) < 2 + d.tagSize
         THEN [dec |-> d, out |-> out, err |-> FALSE]
         ELSE LET r == DecLength(d)
              IN  IF r.err THEN [dec |-> r.dec, out |-> out, err |-> TRUE]
                  ELSE DecLoop(r.dec, out)
    ELSE IF Len(d.buffer) < d.payloadLength + d.tagSize
         THEN [dec |-> d, out |-> out, err |-> FALSE]
         ELSE LET r == DecPayload(d)
              IN  IF r.err THEN [dec |-> r.dec, out |-> out, err |-> TRUE]
                  ELSE DecLoop(r.dec, Push(out, r.push))

\* the salt block of _transform, after the chunk was appended to the buffer
DecSalt(d) ==
    IF d.isFirstChunk /\ Len(d.buffer) >= d.saltSize
    THEN [initializeDecryption([d EXCEPT !.buffer = SliceFrom(d.buffer, d.saltSize)],
                               Slice(d.buffer, 0, d.saltSize))
            EXCEPT !.isFirstChunk = FALSE]
    ELSE d

\* a variant of DecTransform that forgets the carry buffer
DecTransformNoCarry(d, chunk) ==
    LET d1 == [d EXCEPT !.buffer = chunk]
    IN  IF d1.isFirstChunk /\ Len(d1.buffer) < d1.saltSize
        THEN [dec |-> d1, out |-> <<>>, err |-> FALSE]
        ELSE DecLoop(DecSalt(d1), <<>>)

\* AEADDecryptor._transform(chunk): the new state, the buffers pushed, whether the
\* callback got an error
DecTransform(d, chunk) ==
    LET d1 == [d EXCEPT !.buffer = d.buffer \o chunk]
    IN  IF d1.isFirstChunk /\ Len(d1.buffer) < d1.saltSize
        THEN [dec |-> d1, out |-> <<>>, err |-> FALSE]
        ELSE DecLoop(DecSalt(d1), <<>>)

(***************************************************************************)
(* The framer on its own: one AEADEncryptor whose output is fed, cut into  *)
(* pieces at arbitrary byte positions, to one AEADDecryptor built with the *)
(* same method and password.                                               *)
(***************************************************************************)
MaxWrites == 2      \* buffers written to the encryptor in one run

MaxFeed == 3        \* a piece fed to the decryptor has at most this many bytes, or is all there is

\* the password "pass"
Passwords == {<<112, 97, 115, 115>>}

\* what crypto.randomBytes(n) may return: two of the 256^n values
Salts(n) == {Fill(n, 0), [i \in 1..n |-> (i * 11) % 256]}

\* the buffers a caller writes: empty, one byte, several bytes
SmallBufs == {<<>>, <<7>>, <<1, 2, 3>>}

NoTunnel == [state |-> "none"]

\* no ShadowsocksLocal is part of the run
NoLocal == [server |-> "none"]

\* nothing on the wire was altered
NoTamper == [done |-> FALSE, pos |-> 0]

InitCommon ==
    /\ plainIn = <<>>
    /\ encOut = <<>>
    /\ encErr = FALSE
    /\ sealLog = <<>>
    /\ wire = <<>>
    /\ decOut = <<>>
    /\ decErr = FALSE
    /\ tamper = NoTamper

InitFramer ==
    /\ \E m \in Methods, pw \in Passwords :
          /\ enc = NewEncryptor(m, pw)
          /\ dec = NewDecryptor(m, pw)
    /\ InitCommon
    /\ tun = NoTunnel
    /\ local = NoLocal

\* encryptor.write(chunk): one call of AEADEncryptor._transform; what it pushes goes
\* on the wire.  A stream that has emitted an error takes no further writes.
Write(chunk) ==
    /\ ~encErr
    /\ Len(plainIn) < MaxWrites
    /\ \E randomBytes \in (IF enc.isFirstChunk THEN Salts(enc.saltSize) ELSE {<<>>}) :
          \E r \in {EncTransform(enc, chunk, randomBytes)} :
              /\ enc' = r.enc
              /\ encOut' = encOut \o r.out
              /\ encErr' = r.err
              /\ sealLog' = sealLog \o r.seals
              /\ wire' = wire \o Concat(r.out)
    /\ plainIn' = Append(plainIn, chunk)
    /\ UNCHANGED <<dec, decOut, decErr, tamper, tun, local>>

\* decryptor.write(first n bytes of the wire): one call of AEADDecryptor._transform
Feed(n) ==
    /\ ~decErr
    /\ n \in 1..Len(wire)
    /\ \E r \in {DecTransform(dec, SubSeq(wire, 1, n))} :
           /\ dec' = r.dec
           /\ decOut' = decOut \o r.out
           /\ decErr' = r.err
    /\ wire' = SubSeq(wire, n + 1, Len(wire))
    /\ UNCHANGED <<enc, plainIn, encOut, encErr, sealLog, tamper, tun, local>>

WriteSmall == \E chunk \in SmallBufs : Write(chunk)

\* the stream reaches the decryptor in small pieces, cut at any byte, or as everything
\* the encryptor has pushed so far
FeedAny == \E n \in (1..Min(MaxFeed, Len(wire))) \cup {Len(wire)} : Feed(n)

NextFramer == WriteSmall \/ FeedAny

SpecFramer == InitFramer /\ [][NextFramer]_vars

(***************************************************************************)
(* A single buffer written to a fresh encryptor, of the sizes a caller or  *)
(* a socket read can produce (a read delivers up to 64 KiB in one 'data'   *)
(* event).  The decryptor reads the wire whole, or the salt or a length    *)
(* header on its own.                                                      *)
(***************************************************************************)
\* the largest payload length of a chunk, 0x3FFF
MaxPayload == 16383

\* a buffer of n bytes whose content depends on the position
Ramp(n) == [i \in 1..n |-> i % 256]

\* empty, 1 byte, 2 bytes, 3 bytes, 0x3FFF bytes, 0x4000 bytes, 0x10000 bytes
SingleBufs == {<<>>, <<7>>, <<8, 9>>, <<1, 2, 3>>, Ramp(MaxPayload), Ramp(MaxPayload + 1),
               Ramp(65536)}

WriteSingle == plainIn = <<>> /\ \E chunk \in SingleBufs : Write(chunk)

FeedWhole == Feed(Len(wire))

FeedSalt == dec.isFirstChunk /\ dec.buffer = <<>> /\ Feed(dec.saltSize)

FeedHeader ==
    ~dec.isFirstChunk /\ dec.expectingLength /\ dec.buffer = <<>> /\ Feed(2 + dec.tagSize)

NextSingle == WriteSingle \/ FeedWhole \/ FeedSalt \/ FeedHeader

SpecSingle == InitFramer /\ [][NextSingle]_vars

(***************************************************************************)
(* The framer late in the life of a stream: the encryptor and the          *)
(* decryptor have both done StartIds seal / open operations already, as    *)
(* they have after that many calls of updateNonce.                         *)
(***************************************************************************)
\* 0, 2^31 - 2 and 2^32 - 2 as limbs
StartIds == {ZeroId, <<65534, 32767, 0, 0>>, <<65534, 65535, 0, 0>>}

\* the state of an encryptor or decryptor record after its chunkId reached id
Aged(s, salt, id) ==
    [s EXCEPT !.isFirstChunk = FALSE,
              !.salt    = salt,
              !.key     = deriveKey(s.password, salt, s.keySize),
              !.chunkId = id,
              !.nonce   = IF id = ZeroId THEN Fill(s.nonceSize, 0)
                          ELSE NonceBytes(ToInt32(id), 0)]

InitWorn ==
    /\ \E m \in Methods, pw \in Passwords, id \in StartIds :
          \E salt \in Salts(AEAD_METHODS[m].saltSize) :
              /\ enc = Aged(NewEncryptor(m, pw), salt, id)
              /\ dec = Aged(NewDecryptor(m, pw), salt, id)
    /\ InitCommon
    /\ tun = NoTunnel
    /\ local = NoLocal

SpecWorn == InitWorn /\ [][NextFramer]_vars

(***************************************************************************)
(* The decryptor reading one frame from a remote sender that holds the     *)
(* password but is not this program's encryptor: it seals whatever length  *)
(* field it likes, then a payload of that many bytes.  enc is the sender's *)
(* cipher state.                                                           *)
(***************************************************************************)
\* the length fields the sender may seal: 0, 1, 2, 0x3FFF, 0x4000
PeerLengths == {0, 1, 2, MaxPayload, MaxPayload + 1}

\* the sender emits its salt and a sealed length header announcing L bytes
PeerLength(L) ==
    /\ sealLog = <<>>
    /\ \E randomBytes \in Salts(enc.saltSize) :
          \E first \in {EncFirstChunk(enc, randomBytes)} :
             \E len \in {Seal(first.enc, UInt16BE(L))} :
                /\ enc' = updateNonce(first.enc)
                /\ sealLog' = <<SealEntry(first.enc, "length", UInt16BE(L))>>
                /\ wire' = wire \o randomBytes \o len.ct \o len.tag
    /\ UNCHANGED <<dec, plainIn, encOut, encErr, decOut, decErr, tamper, tun, local>>

\* the sender emits the sealed payload of the length it announced
PeerPayload ==
    /\ Len(sealLog) = 1
    /\ \E data \in {Ramp(sealLog[1].lengthField)} :
          \E payload \in {Seal(enc, data)} :
             /\ enc' = updateNonce(enc)
             /\ sealLog' = Append(sealLog, SealEntry(enc, "payload", data))
             /\ wire' = wire \o payload.ct \o payload.tag
             /\ plainIn' = <<data>>
    /\ UNCHANGED <<dec, encOut, encErr, decOut, decErr, tamper, tun, local>>

PeerHeader == \E L \in PeerLengths : PeerLength(L)

NextPeer == PeerHeader \/ PeerPayload \/ FeedWhole \/ FeedSalt \/ FeedHeader

SpecPeer == InitFramer /\ [][NextPeer]_vars

(***************************************************************************)
(* Properties of the framer                                                *)
(***************************************************************************)
\* the bytes the encryptor has pushed, and those of them the decryptor has been fed
EncBytes == Concat(encOut)

FedBytes == SubSeq(EncBytes, 1, Len(EncBytes) - Len(wire))

\* the wire size of one chunk with an n-byte payload
ChunkWireSize(e, n) == 2 + e.tagSize + n + e.tagSize

RECURSIVE ChunksWireSize(_, _)
ChunksWireSize(e, bufs) ==
    IF bufs = <<>> THEN 0
    ELSE (IF Len(Head(bufs)) = 0 THEN 0 ELSE ChunkWireSize(e, Len(Head(bufs))))
         + ChunksWireSize(e, Tail(bufs))

\* the counter value k as limbs, for small k
SmallId(k) == <<k, 0, 0, 0>>

LengthSeals == {i \in 1..Len(sealLog) : sealLog[i].what = "length"}

PayloadSeals == {i \in 1..Len(sealLog) : sealLog[i].what = "payload"}

RECURSIVE SumSizes(_)
SumSizes(S) ==
    IF S = {} THEN 0
    ELSE LET i == CHOOSE x \in S : TRUE IN sealLog[i].size + SumSizes(S \ {i})

\* C1: round trip.  No _transform of the encryptor or the decryptor reports an error,
\* and once the decryptor has read everything the encryptor pushed, the bytes it has
\* emitted are the concatenation of the buffers written to the encryptor, in order.
C1_RoundTrip ==
    /\ ~encErr
    /\ wire = <<>> => ~decErr /\ Concat(decOut) = Concat(plainIn)

\* C2: the k-th seal of an encryptor uses the nonce that encodes k (12 bytes, little
\* endian), consecutive seals use consecutive counters, the length seals are the even
\* ones and the payload seals the odd ones, and no two seals under one key share a nonce.
C2_NonceSequence ==
    \A i \in 1..Len(sealLog) :
        /\ sealLog[i].nonce = NonceLE(sealLog[i].chunkId)
        /\ (sealLog[i].what = "length") <=> (sealLog[i].chunkId[1] % 2 = 0)
        /\ i > 1 => sealLog[i].chunkId = IncId(sealLog[i - 1].chunkId)
        /\ \A j \in 1..(i - 1) :
              sealLog[j].key = sealLog[i].key => sealLog[j].nonce # sealLog[i].nonce

\* C4: the decryptor never waits for a payload whose authenticated length is 0 or above
\* 0x3FFF (it fails instead), and never emits the plaintext of such a chunk.
C4_LengthInRange ==
    /\ (~dec.isFirstChunk /\ ~dec.expectingLength) => dec.payloadLength \in 1..MaxPayload
    /\ \A i \in 1..Len(decOut) : Len(decOut[i]) <= MaxPayload

\* C5: a single buffer of L > 0x3FFF bytes is emitted as ceil(L / 0x3FFF) chunks whose
\* length fields lie in 1..0x3FFF and whose payload sizes add up to L, without an error;
\* and no chunk ever carries a length field above 0x3FFF.
C5_SplitsOversize ==
    /\ \A i \in LengthSeals : sealLog[i].lengthField <= MaxPayload
    /\ (Len(plainIn) = 1 /\ Len(plainIn[1]) > MaxPayload) =>
          /\ ~encErr
          /\ Cardinality(LengthSeals) = (Len(plainIn[1]) + MaxPayload - 1) \div MaxPayload
          /\ \A i \in LengthSeals : sealLog[i].lengthField \in 1..MaxPayload
          /\ SumSizes(PayloadSeals) = Len(plainIn[1])

\* C6: split invariance.  However the stream was cut into the buffers fed so far, the
\* decryptor is in the state, has emitted the bytes and has reported the error that a
\* fresh decryptor reaches when it is fed the same bytes as one buffer; it holds the
\* first saltSize bytes of the stream as its salt, and nothing else before that.
C6_SplitInvariance ==
    LET unsplit == DecTransform(NewDecryptor(dec.method, dec.password), FedBytes)
    IN  /\ dec = unsplit.dec
        /\ Concat(decOut) = Concat(unsplit.out)
        /\ decErr = unsplit.err
        /\ dec.isFirstChunk <=> Len(FedBytes) < dec.saltSize
        /\ ~dec.isFirstChunk => dec.salt = SubSeq(EncBytes, 1, dec.saltSize)

\* a cut fell inside the second chunk after the first chunk's plaintext was emitted
C6_Witness ==
    /\ ~dec.isFirstChunk /\ ~dec.expectingLength
    /\ Len(dec.buffer) > 0
    /\ Len(decOut) = 1
    /\ Len(plainIn) = 2

\* C7: the salt is the first buffer the encryptor pushes and appears once: the output is
\* saltSize bytes followed by the chunks alone; every seal uses the key derived from
\* that salt, and the counter is never reset (the i-th seal has counter i - 1).
C7_SaltOnce ==
    /\ enc.isFirstChunk => encOut = <<>> /\ sealLog = <<>>
    /\ ~enc.isFirstChunk =>
          /\ encOut # <<>>
          /\ encOut[1] = enc.salt
          /\ Len(enc.salt) = enc.saltSize
          /\ Len(EncBytes) = enc.saltSize + ChunksWireSize(enc, plainIn)
          /\ enc.key = deriveKey(enc.password, enc.salt, enc.keySize)
          /\ \A i \in 1..Len(sealLog) :
                sealLog[i].key = enc.key /\ sealLog[i].chunkId = SmallId(i - 1)
          /\ enc.chunkId = SmallId(Len(sealLog))

\* two non-empty buffers went through the encryptor after its salt
C7_Witness ==
    /\ ~enc.isFirstChunk
    /\ Len(plainIn) = 2 /\ Len(plainIn[1]) > 0 /\ Len(plainIn[2]) > 0
    /\ Len(sealLog) = 4

\* C8: a single buffer of L bytes, 1 <= L <= 0x3FFF, written to a fresh encryptor gives
\* saltSize + 2 + tagSize + L + tagSize bytes: the salt, the length L sealed under
\* nonce 0 (2 bytes, then its tag), the payload sealed under nonce 1 (L bytes, then
\* its tag).
C8_WireLayout ==
    (Len(plainIn) = 1 /\ Len(plainIn[1]) \in 1..MaxPayload) =>
        LET P  == plainIn[1]
            L  == Len(P)
            S  == enc.saltSize
            T  == enc.tagSize
            c0 == createAEADCipher(enc.method, enc.key, NonceLE(SmallId(0)), TRUE)
            c1 == createAEADCipher(enc.method, enc.key, NonceLE(SmallId(1)), TRUE)
            encryptedLength  == Slice(EncBytes, S, S + 2)
            encryptedPayload == Slice(EncBytes, S + 2 + T, S + 2 + T + L)
        IN  /\ ~encErr
            /\ Len(EncBytes) = S + 2 + T + L + T
            /\ Slice(EncBytes, 0, S) = enc.salt
            /\ encryptedLength = CipherUpdate(c0, UInt16BE(L))
            /\ Slice(EncBytes, S + 2, S + 2 + T) = AuthTag(c0, encryptedLength)
            /\ encryptedPayload = CipherUpdate(c1, P)
            /\ Slice(EncBytes, S + 2 + T + L, S + 2 + T + L + T) = AuthTag(c1, encryptedPayload)

\* a buffer of exactly 0x3FFF bytes went through a fresh encryptor
C8_Witness ==
    /\ Len(plainIn) = 1 /\ Len(plainIn[1]) = MaxPayload
    /\ ~encErr
    /\ Len(encOut) = 2

(***************************************************************************)
(* src/local.js: ShadowsocksLocal.  One tunnel: the client socket          *)
(* (clientConn), the socket to the remote server (serverConn), the         *)
(* listener that currently receives the client's 'data' events, and the    *)
(* two cipher streams created on connect.  Every handler is a function     *)
(* from the tunnel record to the tunnel record.                            *)
(***************************************************************************)
\* the encryptor / decryptor of a tunnel before the connect handler creates them
NoStream == [none |-> TRUE]

\* a tunnel when handleSocksClient has registered the handshake handler
NewTunnel(method, password) ==
    [method          |-> method,
     password        |-> password,
     handler         |-> "handshake",  \* "handshake", "request", "pipe", or "none"
     handshakeBuffer |-> <<>>,
     requestBuffer   |-> <<>>,
     targetAddr      |-> <<>>,
     clientConn      |-> "open",       \* "open" or "destroyed"
     serverConn      |-> "none",       \* "none", "connecting", "open" or "destroyed"
     clientEnded     |-> FALSE,        \* clientConn.end() was called
     serverEnded     |-> FALSE,        \* serverConn.end() was called
     closeHandlers   |-> FALSE,        \* the two 'close' listeners are registered
     idle            |-> 0,            \* ticks since serverConn last read or wrote
     quiet           |-> 0,            \* ticks since a byte last went through the relay
     encryptor       |-> NoStream,
     decryptor       |-> NoStream,
     encErr          |-> FALSE,
     decErr          |-> FALSE,
     encIn           |-> <<>>,         \* the buffers written to the encryptor
     decOut          |-> <<>>,         \* the buffers the decryptor pushed
     clientOut       |-> <<>>,         \* the buffers sent to the client
     serverOut       |-> <<>>,         \* the buffers sent to the remote server
     clientStage     |-> 0,            \* how far the client is in its script
     clientIn        |-> <<>>,         \* bytes the client sent, not yet in a 'data' event
     log             |-> <<>>]         \* the calls and events of the tunnel, in order

\* one entry of the log
Log(t, ev, data) == [t EXCEPT !.log = Append(@, [ev |-> ev, data |-> data])]

\* the 10-byte SOCKS5 reply with the given REP code
Reply(rep) == <<5, rep, 0, 1, 0, 0, 0, 0, 0, 0>>

MethodReply == <<5, 0>>

SuccessReply == Reply(0)

\* clientConn.writable
ClientWritable(t) == t.clientConn = "open" /\ ~t.clientEnded

\* serverConn.writable, once connected
ServerWritable(t) == t.serverConn = "open" /\ ~t.serverEnded

\* clientConn.write(data): a destroyed or ended socket sends nothing
ClientWrite(t, data) ==
    LET t1 == Log(t, "clientConn.write", data)
    IN  IF ClientWritable(t) THEN [t1 EXCEPT !.clientOut = Append(@, data)] ELSE t1

\* the buffers a stream pushes into a pipe to clientConn
RECURSIVE ClientWriteAll(_, _)
ClientWriteAll(t, bufs) ==
    IF bufs = <<>> THEN t ELSE ClientWriteAll(ClientWrite(t, Head(bufs)), Tail(bufs))

\* the buffers the encryptor pushes into its pipe to serverConn
ServerWrite(t, bufs) ==
    IF ServerWritable(t) /\ bufs # <<>>
    THEN [t EXCEPT !.serverOut = @ \o bufs, !.idle = 0]
    ELSE t

\* clientConn.destroy(), and the 'close' listener of clientConn if it is registered
DestroyClient(t) ==
    IF t.clientConn = "destroyed" THEN t
    ELSE LET t1 == [t EXCEPT !.clientConn = "destroyed"]
         IN  IF t1.closeHandlers /\ ServerWritable(t1)
             THEN [t1 EXCEPT !.serverConn = "destroyed"]
             ELSE t1

\* serverConn.destroy(), and the 'close' listener of serverConn if it is registered
DestroyServer(t) ==
    IF t.serverConn = "destroyed" THEN t
    ELSE LET t1 == [t EXCEPT !.serverConn = "destroyed"]
         IN  IF t1.closeHandlers /\ ClientWritable(t1)
             THEN [t1 EXCEPT !.clientConn = "destroyed"]
             ELSE t1

\* handleSocksRequest: a fresh request buffer and the request handler
handleSocksRequest(t) == [t EXCEPT !.requestBuffer = <<>>, !.handler = "request"]

\* handshakeHandler(data)
handshakeHandler(t, data) ==
    LET handshakeBuffer == t.handshakeBuffer \o data
        t1 == [t EXCEPT !.handshakeBuffer = handshakeBuffer]
    IN  IF Len(handshakeBuffer) < 2 THEN t1
        ELSE IF handshakeBuffer[1] # 5 THEN DestroyClient(t1)
        ELSE IF Len(handshakeBuffer) < 2 + handshakeBuffer[2] THEN t1
        ELSE handleSocksRequest(ClientWrite([t1 EXCEPT !.handler = "none"], MethodReply))

\* connectToServer(clientConn, targetAddr) up to the return of net.createConnection
connectToServer(t, targetAddr) ==
    Log([t EXCEPT !.targetAddr = targetAddr, !.serverConn = "connecting"],
        "connectToServer", targetAddr)

\* a variant of TargetAddrOf that leaves the port out
TargetAddrNoPort(requestBuffer, portOffset) == Slice(requestBuffer, 3, portOffset)

\* the record requestHandler hands to connectToServer
TargetAddrOf(requestBuffer, portOffset) == Slice(requestBuffer, 3, portOffset + 2)

\* a variant of unsupportedCommand that closes the connection without a reply
unsupportedCommandNoReply(t) == DestroyClient(t)

\* requestHandler on a command other than CONNECT: reply REP 07, then destroy
unsupportedCommand(t) == DestroyClient(ClientWrite(t, Reply(7)))

\* requestHandler(data)
requestHandler(t, data) ==
    LET requestBuffer == t.requestBuffer \o data
        t1         == [t EXCEPT !.requestBuffer = requestBuffer]
        cmd        == requestBuffer[2]
        addrType   == requestBuffer[4]
        addrLength == IF addrType = 1 THEN 4
                      ELSE IF addrType = 3 THEN requestBuffer[5] + 1
                      ELSE 16
        portOffset == 4 + addrLength
    IN  IF Len(requestBuffer) < 4 THEN t1
        ELSE IF requestBuffer[1] # 5 \/ requestBuffer[3] # 0 THEN DestroyClient(t1)
        ELSE IF cmd # 1 THEN unsupportedCommand(t1)
        ELSE IF addrType \notin {1, 3, 4} THEN DestroyClient(ClientWrite(t1, Reply(8)))
        ELSE IF addrType = 3 /\ Len(requestBuffer) < 5 THEN t1
        ELSE IF Len(requestBuffer) < 4 + addrLength + 2 THEN t1
        ELSE connectToServer([t1 EXCEPT !.handler = "none"],
                             TargetAddrOf(requestBuffer, portOffset))

\* the 'error' listener of the encryptor
encryptorOnError(t) == DestroyServer(DestroyClient(Log(t, "encryptor error", <<>>)))

\* a variant of decryptorOnError that leaves serverConn alone
decryptorOnErrorClientOnly(t) == DestroyClient(Log(t, "decryptor error", <<>>))

\* the 'error' listener of the decryptor
decryptorOnError(t) == DestroyServer(DestroyClient(Log(t, "decryptor error", <<>>)))

\* encryptor.write(chunk); what the encryptor pushes goes to serverConn
encryptorWrite(t, chunk, randomBytes) ==
    IF t.encErr THEN t
    ELSE LET r  == EncTransform(t.encryptor, chunk, randomBytes)
             t1 == Log([t EXCEPT !.encryptor = r.enc, !.encIn = Append(@, chunk)],
                       "encryptor.write", chunk)
             t2 == ServerWrite(t1, r.out)
         IN  IF r.err THEN encryptorOnError([t2 EXCEPT !.encErr = TRUE]) ELSE t2

\* a 'data' event of serverConn: decryptor.write(data); what the decryptor pushes goes
\* to clientConn
serverData(t, data) ==
    IF t.decErr THEN t
    ELSE LET r  == DecTransform(t.decryptor, data)
             t1 == [t EXCEPT !.decryptor = r.dec, !.decOut = @ \o r.out,
                             !.idle = 0, !.quiet = 0]
             t2 == ClientWriteAll(t1, r.out)
         IN  IF r.err THEN decryptorOnError([t2 EXCEPT !.decErr = TRUE]) ELSE t2

\* a variant of onConnect that replies to the client before it writes the target address
onConnectReplyFirst(t, randomBytes) ==
    LET t1 == Log([t EXCEPT !.serverConn = "open",
                            !.encryptor  = NewEncryptor(t.method, t.password),
                            !.decryptor  = NewDecryptor(t.method, t.password)],
                  "connect", <<>>)
        t2 == ClientWrite(t1, SuccessReply)
        t3 == encryptorWrite(t2, t2.targetAddr, randomBytes)
    IN  [t3 EXCEPT !.handler = "pipe", !.closeHandlers = TRUE]

\* the 'connect' listener of serverConn
onConnect(t, randomBytes) ==
    LET t1 == Log([t EXCEPT !.serverConn = "open",
                            !.encryptor  = NewEncryptor(t.method, t.password),
                            !.decryptor  = NewDecryptor(t.method, t.password)],
                  "connect", <<>>)
        t2 == encryptorWrite(t1, t1.targetAddr, randomBytes)
        t3 == ClientWrite(t2, SuccessReply)
    IN  [t3 EXCEPT !.handler = "pipe", !.closeHandlers = TRUE]

\* the first 'error' event of serverConn
onServerError(t) ==
    LET t1 == Log(t, "server error", <<>>)
        t2 == IF ClientWritable(t1)
              THEN DestroyClient(ClientWrite(t1, Reply(1)))
              ELSE t1
    IN  DestroyServer(t2)

\* the first 'timeout' event of serverConn
onServerTimeout(t) ==
    LET t1 == DestroyServer(Log(t, "server timeout", <<>>))
    IN  IF ClientWritable(t1) THEN DestroyClient(t1) ELSE t1

\* the 'error' listener of clientConn
onClientError(t) == DestroyClient(Log(t, "client error", <<>>))

\* a 'data' event of clientConn, given to the listener registered at that moment; with
\* no listener the bytes are lost
clientData(t, data) ==
    IF t.handler = "handshake" THEN handshakeHandler(t, data)
    ELSE IF t.handler = "request" THEN requestHandler(t, data)
    ELSE IF t.handler = "pipe" THEN encryptorWrite([t EXCEPT !.quiet = 0], data, <<>>)
    ELSE Log(t, "data lost", data)

(***************************************************************************)
(* The events of one tunnel.  The client follows a script: a greeting, a   *)
(* request, one payload; it need not wait for a reply before it sends the  *)
(* next part, and its bytes reach the 'data' listener in segments.         *)
(***************************************************************************)
InitTunnel ==
    /\ \E m \in Methods, pw \in Passwords :
          /\ enc = NewEncryptor(m, pw)
          /\ dec = NewDecryptor(m, pw)
          /\ tun = NewTunnel(m, pw)
    /\ InitCommon
    /\ local = NoLocal

FramerVars == <<enc, dec, plainIn, encOut, encErr, sealLog, wire, decOut, decErr, tamper>>

\* the client sends the next part of its script
ClientSends(stage, bufs) ==
    /\ tun.clientConn = "open"
    /\ tun.clientStage = stage
    /\ \E b \in bufs : tun' = [tun EXCEPT !.clientIn = @ \o b, !.clientStage = stage + 1]
    /\ UNCHANGED <<FramerVars, local>>

\* a 'data' event of clientConn with the first n bytes the client sent
ClientData(n) ==
    /\ tun.clientConn = "open"
    /\ n \in 1..Len(tun.clientIn)
    /\ tun' = clientData([tun EXCEPT !.clientIn = SubSeq(@, n + 1, Len(@))],
                         SubSeq(tun.clientIn, 1, n))
    /\ UNCHANGED <<FramerVars, local>>

\* the 'connect' event of serverConn
Connect(salts) ==
    /\ tun.serverConn = "connecting"
    /\ \E randomBytes \in salts : tun' = onConnect(tun, randomBytes)
    /\ UNCHANGED <<FramerVars, local>>

\* an 'error' event of serverConn: the dial fails, or the connection breaks later
ServerError ==
    /\ tun.serverConn \in {"connecting", "open"}
    /\ tun' = onServerError(tun)
    /\ UNCHANGED <<FramerVars, local>>

\* the 'timeout' event of serverConn: the dial or the connection stays idle too long
ServerTimeout ==
    /\ tun.serverConn \in {"connecting", "open"}
    /\ tun' = onServerTimeout(tun)
    /\ UNCHANGED <<FramerVars, local>>

\* an 'error' event of clientConn: the client resets its connection
ClientError ==
    /\ tun.clientConn = "open"
    /\ tun' = onClientError(tun)
    /\ UNCHANGED <<FramerVars, local>>

(***************************************************************************)
(* SOCKS5 negotiation and the start of the relay, for every kind of        *)
(* greeting and request.                                                   *)
(***************************************************************************)
\* no-auth offered; no-auth among two; no-auth not offered; version 4; no method at all
Greetings == {<<5, 1, 0>>, <<5, 2, 0, 2>>, <<5, 1, 2>>, <<4, 1, 0>>, <<5, 0>>}

\* CONNECT to 127.0.0.1:80
RequestIPv4 == <<5, 1, 0, 1, 127, 0, 0, 1, 0, 80>>

\* CONNECT to the domain "a.b", port 443
RequestDomain == <<5, 1, 0, 3, 3, 97, 46, 98, 1, 187>>

\* CONNECT to a domain of length 0
RequestEmptyDomain == <<5, 1, 0, 3, 0, 0, 80>>

\* CONNECT to an IPv6 address
RequestIPv6 == <<5, 1, 0, 4>> \o Ramp(16) \o <<0, 80>>

\* BIND; an unknown address type; a non-zero reserved byte
Requests == {RequestIPv4, RequestDomain, RequestEmptyDomain, RequestIPv6,
             <<5, 2, 0, 1, 127, 0, 0, 1, 0, 80>>,
             <<5, 1, 0, 2, 127, 0, 0, 1, 0, 80>>,
             <<5, 1, 1, 1, 127, 0, 0, 1, 0, 80>>}

\* what the client sends through the tunnel
ClientBufs == {<<71, 69, 84>>}

ClientGreets == ClientSends(0, Greetings)

ClientRequests == ClientSends(1, Requests)

ClientPayload == ClientSends(2, ClientBufs)

ClientDataAny == \E n \in (1..Min(MaxFeed, Len(tun.clientIn))) \cup {Len(tun.clientIn)} : ClientData(n)

ConnectAny == Connect(Salts(AEAD_METHODS[tun.method].saltSize))

NextSocks ==
    \/ ClientGreets
    \/ ClientRequests
    \/ ClientPayload
    \/ ClientDataAny
    \/ ConnectAny
    \/ ServerError
    \/ ServerTimeout
    \/ ClientError

SpecSocks == InitTunnel /\ [][NextSocks]_vars

(***************************************************************************)
(* The relay from the remote server to the client.  enc is the remote      *)
(* server's encryptor, wire the bytes it sent that serverConn has not read *)
(* yet; one of them may be altered on the way.                             *)
(***************************************************************************)
\* what the remote server sends through the tunnel
RemoteBufs == {<<7>>, <<1, 2, 3>>}

\* the bits an alteration may flip
FlipBits == {0}

FlipBit(b, k) == IF (b \div (2 ^ k)) % 2 = 1 THEN b - 2 ^ k ELSE b + 2 ^ k

\* the number of bytes of the remote server's stream that serverConn has read
ServerRead == Len(Concat(encOut)) - Len(wire)

ClientHello == ClientSends(0, {<<5, 1, 0>>})

ClientConnects == ClientSends(1, {RequestDomain})

ClientDataWhole == ClientData(Len(tun.clientIn))

ConnectOne == Connect({Fill(AEAD_METHODS[tun.method].saltSize, 0)})

\* the remote server writes a buffer into its encryptor
RemoteSend ==
    /\ tun.serverConn = "open"
    /\ \E chunk \in RemoteBufs : Write(chunk)

\* byte i of the bytes in flight, a byte of a chunk, has bit k flipped
Tamper(i, k) ==
    /\ ~tamper.done
    /\ i \in 1..Len(wire)
    /\ ServerRead + i > enc.saltSize
    /\ wire' = [wire EXCEPT ![i] = FlipBit(@, k)]
    /\ tamper' = [done |-> TRUE, pos |-> ServerRead + i]
    /\ UNCHANGED <<enc, dec, plainIn, encOut, encErr, sealLog, decOut, decErr, tun, local>>

TamperAny == \E i \in 1..Len(wire), k \in FlipBits : Tamper(i, k)

\* a 'data' event of serverConn with the first n bytes in flight
ServerData(n) ==
    /\ tun.serverConn = "open"
    /\ n \in 1..Len(wire)
    /\ tun' = serverData(tun, SubSeq(wire, 1, n))
    /\ wire' = SubSeq(wire, n + 1, Len(wire))
    /\ UNCHANGED <<enc, dec, plainIn, encOut, encErr, sealLog, decOut, decErr, tamper, local>>

ServerDataWhole == ServerData(Len(wire))

ServerDataSalt ==
    /\ tun.serverConn = "open"
    /\ tun.decryptor.isFirstChunk /\ tun.decryptor.buffer = <<>>
    /\ ServerData(tun.decryptor.saltSize)

ServerDataHeader ==
    /\ tun.serverConn = "open"
    /\ ~tun.decryptor.isFirstChunk /\ tun.decryptor.expectingLength
    /\ tun.decryptor.buffer = <<>>
    /\ ServerData(2 + tun.decryptor.tagSize)

NextTunnel ==
    \/ ClientHello
    \/ ClientConnects
    \/ ClientDataWhole
    \/ ConnectOne
    \/ ClientError
    \/ RemoteSend
    \/ TamperAny
    \/ ServerDataWhole
    \/ ServerDataSalt
    \/ ServerDataHeader

SpecTunnel == InitTunnel /\ [][NextTunnel]_vars

(***************************************************************************)
(* Properties of the tunnel                                                *)
(***************************************************************************)
IsPrefix(a, b) == Len(a) <= Len(b) /\ a = SubSeq(b, 1, Len(a))

\* the offset in the remote server's stream at which its k-th chunk starts
ChunkStart(k) == enc.saltSize + ChunksWireSize(enc, SubSeq(plainIn, 1, k - 1))

\* the chunk of the remote server's stream that holds the altered byte
TamperedChunk ==
    CHOOSE k \in 1..Len(plainIn) : ChunkStart(k) < tamper.pos /\ tamper.pos <= ChunkStart(k + 1)

\* the offset at which the altered part of that chunk ends: its length header (encrypted
\* length and tag), or its payload (encrypted payload and tag)
TamperedEnd ==
    LET s == ChunkStart(TamperedChunk)
    IN  IF tamper.pos <= s + 2 + enc.tagSize THEN s + 2 + enc.tagSize
        ELSE ChunkStart(TamperedChunk + 1)

\* what was sent to the client after the method reply and the success reply
RelayedToClient == Concat(SubSeq(tun.clientOut, 3, Len(tun.clientOut)))

\* C3: tamper detection.  When one byte of chunk n of the stream from the remote server
\* was altered, the decryptor reports an error exactly when it has read the altered
\* part of chunk n; what it has emitted, and what was relayed to the client, is plaintext
\* of the chunks before n only; and once it has reported the error, both sockets of the
\* tunnel are destroyed.
C3_TamperDetection ==
    tamper.done =>
        LET before == Concat(SubSeq(plainIn, 1, TamperedChunk - 1))
        IN  /\ tun.decErr <=> ServerRead >= TamperedEnd
            /\ tun.decErr => tun.clientConn = "destroyed" /\ tun.serverConn = "destroyed"
            /\ IsPrefix(Concat(tun.decOut), before)
            /\ IsPrefix(RelayedToClient, before)

\* the second chunk was altered; the first was relayed, then the decryptor failed
C3_Witness ==
    /\ tamper.done /\ tun.decErr
    /\ TamperedChunk = 2
    /\ Len(tun.decOut) = 1 /\ RelayedToClient = plainIn[1]
    /\ tun.clientConn = "destroyed" /\ tun.serverConn = "destroyed"

\* the length of the record ATYP, address, port of a request
RecordLength(req) ==
    1 + (IF req[4] = 1 THEN 4 ELSE IF req[4] = 3 THEN 1 + req[5] ELSE 16) + 2

\* C9: once connectToServer was called, the request is a CONNECT with address type 1, 3
\* or 4, the record handed over is the bytes of the request from ATYP through the port
\* (for a domain of length L: 1 + 1 + L + 2 bytes), that record is the first buffer
\* written to the tunnel's encryptor, ahead of every byte relayed from the client, and
\* it is the plaintext of the first chunk the remote server receives.
C9_TargetAddrFirst ==
    tun.serverConn # "none" =>
        LET req  == tun.requestBuffer
            sent == DecTransform(NewDecryptor(tun.method, tun.password), Concat(tun.serverOut))
        IN  /\ req[1] = 5 /\ req[2] = 1 /\ req[4] \in {1, 3, 4}
            /\ Len(req) >= 3 + RecordLength(req)
            /\ tun.targetAddr = SubSeq(req, 4, 3 + RecordLength(req))
            /\ tun.handler = "pipe" <=> tun.encIn # <<>>
            /\ tun.encIn # <<>> => tun.encIn[1] = tun.targetAddr
            /\ tun.serverOut # <<>> =>
                  ~sent.err /\ sent.out # <<>> /\ sent.out[1] = tun.targetAddr

\* a CONNECT to a domain was accepted, and a client payload was relayed after the record
C9_Witness ==
    /\ tun.handler = "pipe"
    /\ tun.requestBuffer[4] = 3 /\ tun.requestBuffer[5] = 3
    /\ Len(tun.targetAddr) = 7
    /\ Len(tun.encIn) = 2 /\ tun.encIn[2] \in ClientBufs

\* the calls clientConn.write(success reply) of the tunnel
SuccessWrites ==
    {i \in 1..Len(tun.log) :
        tun.log[i].ev = "clientConn.write" /\ tun.log[i].data = SuccessReply}

\* the dial failed: serverConn had an error or a timeout before any 'connect'
DialFailed ==
    \E i \in 1..Len(tun.log) :
        /\ tun.log[i].ev \in {"server error", "server timeout"}
        /\ \A j \in 1..(i - 1) : tun.log[j].ev # "connect"

\* C10: every write of the success reply to the client comes after the 'connect' event
\* of serverConn and after the write of the target address record to the encryptor; no
\* success reply is written while the request is parsed or the dial is pending, and
\* none on a tunnel whose dial failed.
C10_ReplyAfterConnect ==
    /\ \A i \in SuccessWrites :
          \E j \in 1..(i - 1), k \in 1..(i - 1) :
              /\ j < k
              /\ tun.log[j].ev = "connect"
              /\ tun.log[k].ev = "encryptor.write" /\ tun.log[k].data = tun.targetAddr
    /\ \A i \in 1..Len(tun.clientOut) :
          tun.clientOut[i] = SuccessReply => tun.encIn # <<>> /\ tun.encIn[1] = tun.targetAddr
    /\ tun.serverConn \in {"none", "connecting"} => SuccessWrites = {}
    /\ DialFailed =>
          /\ SuccessWrites = {}
          /\ \A i \in 1..Len(tun.clientOut) : tun.clientOut[i] # SuccessReply

\* the dial succeeded and the client got the method reply, then the success reply
C10_Witness ==
    /\ tun.handler = "pipe"
    /\ tun.clientOut = <<MethodReply, SuccessReply>>
    /\ tun.serverOut # <<>>

\* the events of the log that are a failure of the dial: an error or a timeout of
\* serverConn with no 'connect' before it
DialFailures ==
    {i \in 1..Len(tun.log) :
        /\ tun.log[i].ev \in {"server error", "server timeout"}
        /\ \A j \in 1..(i - 1) : tun.log[j].ev # "connect"}

\* C11: when the dial fails by an error or by a timeout and the client socket was not
\* closed before, the last thing sent to the client is the reply with REP 0x01, and
\* clientConn and serverConn are both destroyed.
C11_DialFailureReply ==
    \A i \in DialFailures :
        (\A j \in 1..(i - 1) : tun.log[j].ev # "client error") =>
            /\ tun.clientOut # <<>>
            /\ tun.clientOut[Len(tun.clientOut)] = Reply(1)
            /\ tun.clientConn = "destroyed"
            /\ tun.serverConn = "destroyed"

(***************************************************************************)
(* End of stream.  Both sockets are created with allowHalfOpen false: when *)
(* the peer ends its side, the socket ends its own write side and is then  *)
(* destroyed.  The pipes end their destination when their source ends.     *)
(* Whether the destination was ended before the 'close' listener of the    *)
(* source socket runs depends on whether the cipher stream had been        *)
(* drained by then; both orders are possible.                              *)
(***************************************************************************)
\* the 'end' event of clientConn; drained: the encryptor had nothing left to push, so
\* serverConn.end() was called before clientConn emitted 'close'
onClientEnd(t, drained) ==
    LET t1 == Log(t, "client end", <<>>)
        t2 == IF t1.handler = "pipe" /\ drained /\ ServerWritable(t1)
              THEN [t1 EXCEPT !.serverEnded = TRUE]
              ELSE t1
    IN  DestroyClient([t2 EXCEPT !.clientEnded = TRUE])

\* the 'end' event of serverConn; drained: the decryptor had nothing left to push, so
\* clientConn.end() was called before serverConn emitted 'close'
onServerEnd(t, drained) ==
    LET t1 == Log(t, "server end", <<>>)
        t2 == IF drained /\ ClientWritable(t1)
              THEN [t1 EXCEPT !.clientEnded = TRUE]
              ELSE t1
    IN  DestroyServer([t2 EXCEPT !.serverEnded = TRUE])

\* the client ends its side of the connection, after everything it sent was read
ClientEnd ==
    /\ tun.clientConn = "open"
    /\ tun.clientIn = <<>>
    /\ \E drained \in BOOLEAN : tun' = onClientEnd(tun, drained)
    /\ UNCHANGED <<FramerVars, local>>

\* the remote server ends its side of the connection, after everything it sent was read
ServerEnd ==
    /\ tun.serverConn = "open"
    /\ wire = <<>>
    /\ \E drained \in BOOLEAN : tun' = onServerEnd(tun, drained)
    /\ UNCHANGED <<FramerVars, local>>

(***************************************************************************)
(* The ways a relaying tunnel ends.  The timer of serverConn is the only   *)
(* step the program takes by itself; everything else is up to the client   *)
(* or the remote server.                                                   *)
(***************************************************************************)
NextClose ==
    \/ ClientHello
    \/ ClientConnects
    \/ ClientPayload
    \/ ClientDataWhole
    \/ ConnectOne
    \/ RemoteSend
    \/ ServerDataWhole
    \/ ClientError
    \/ ClientEnd
    \/ ServerError
    \/ ServerEnd
    \/ ServerTimeout

SpecClose == InitTunnel /\ [][NextClose]_vars /\ WF_vars(ServerTimeout)

\* the events that end a socket or a cipher stream of the tunnel
EndEvents ==
    {"client error", "client end", "server error", "server end", "server timeout",
     "encryptor error", "decryptor error"}

\* such an event happened on the tunnel
Ended == \E i \in 1..Len(tun.log) : tun.log[i].ev \in EndEvents

BothClosed == tun.clientConn = "destroyed" /\ tun.serverConn = "destroyed"

\* C12: on a relaying tunnel, an error or an end of stream on either socket or either
\* cipher stream is followed, sooner or later, by a state in which clientConn and
\* serverConn are both destroyed.
C12_TunnelCloses == (tun.handler = "pipe" /\ Ended) ~> BothClosed

\* the end events that happened on the tunnel
EndsSeen == {tun.log[i].ev : i \in 1..Len(tun.log)} \cap EndEvents

\* the event happened after the 'connect' event, when the tunnel was relaying
InRelay(ev) ==
    \E i, j \in 1..Len(tun.log) :
        i < j /\ tun.log[i].ev = "connect" /\ tun.log[j].ev = ev

\* C13: half-close.  After the end of the client's stream on a relaying tunnel, and
\* with no other end or error since, only the write side of serverConn is shut down:
\* serverConn is still open, clientConn is still open to take what the remote server
\* sends, and everything the decryptor has pushed was sent to the client.  Likewise
\* after the end of the remote server's stream: clientConn is only ended, serverConn
\* is still open to take what the client sends.
C13_HalfClose ==
    /\ (EndsSeen = {"client end"} /\ InRelay("client end")) =>
          /\ tun.serverConn = "open" /\ tun.serverEnded
          /\ tun.clientConn = "open"
          /\ RelayedToClient = Concat(tun.decOut)
    /\ (EndsSeen = {"server end"} /\ InRelay("server end")) =>
          /\ tun.clientConn = "open" /\ tun.clientEnded
          /\ tun.serverConn = "open"


(***************************************************************************)
(* The idle timer.  serverConn is created with the option timeout          *)
(* (local.js 593-597), which arms the idle timer of that socket alone: it  *)
(* counts from the last read or write on serverConn and emits 'timeout'    *)
(* when it reaches the configured time.  clientConn has no timer.  Time    *)
(* passes in ticks, TimeoutTicks of them make the configured timeout.      *)
(***************************************************************************)
TimeoutTicks == 2

\* the idle timer of serverConn runs
TimerArmed(t) == t.serverConn \in {"connecting", "open"}

\* one tick of time passes on a tunnel
tick(t) ==
    [t EXCEPT !.idle  = IF TimerArmed(t) THEN @ + 1 ELSE @,
              !.quiet = IF t.handler = "pipe" THEN @ + 1 ELSE @]

\* time passes; a timer that is due fires before more time passes
Tick ==
    /\ tun.clientConn = "open" \/ TimerArmed(tun)
    /\ TimerArmed(tun) \/ tun.handler = "pipe"
    /\ ~(TimerArmed(tun) /\ tun.idle = TimeoutTicks)
    /\ tun.quiet <= TimeoutTicks
    /\ tun' = tick(tun)
    /\ UNCHANGED <<FramerVars, local>>

\* the 'timeout' event of serverConn, when its idle timer is due
IdleTimeout ==
    /\ tun.idle = TimeoutTicks
    /\ ServerTimeout

NextIdle ==
    \/ ClientHello
    \/ ClientConnects
    \/ ClientPayload
    \/ ClientDataWhole
    \/ ConnectOne
    \/ RemoteSend
    \/ ServerDataWhole
    \/ ServerEnd
    \/ Tick
    \/ IdleTimeout

SpecIdle == InitTunnel /\ [][NextIdle]_vars

\* C14: idle timeout.  A relaying tunnel through which no byte went in either
\* direction for more than the configured timeout has both sockets closed, and the
\* idle timer ends a relaying tunnel only when no byte went through it for the whole
\* timeout.
C14_IdleTimeout ==
    /\ (tun.handler = "pipe" /\ tun.quiet > TimeoutTicks) => BothClosed
    /\ InRelay("server timeout") => tun.quiet >= TimeoutTicks

\* the same with both sockets still open when the time runs out
IdleBothOpen ==
    (tun.handler = "pipe" /\ tun.quiet > TimeoutTicks /\ ~BothClosed) =>
        \E i \in 1..Len(tun.log) : tun.log[i].ev = "server end"


\* the handshake handler has read a complete greeting of version 5
GreetingComplete ==
    /\ Len(tun.handshakeBuffer) >= 2
    /\ tun.handshakeBuffer[1] = 5
    /\ Len(tun.handshakeBuffer) >= 2 + tun.handshakeBuffer[2]

\* the methods the greeting offers
OfferedMethods == {tun.handshakeBuffer[2 + k] : k \in 1..tun.handshakeBuffer[2]}

\* C15: method negotiation.  Once a complete greeting of version 5 is read, the first
\* reply is 05 00 and the request is awaited when method 0 is among the offered ones;
\* otherwise the first reply is 05 FF, the client connection is closed, no request
\* is parsed and the remote server is not dialled.
C15_MethodSelection ==
    GreetingComplete =>
        IF 0 \in OfferedMethods
        THEN /\ tun.clientOut # <<>>
             /\ tun.clientOut[1] = <<5, 0>>
             /\ tun.handler # "handshake"
        ELSE /\ tun.clientOut # <<>>
             /\ tun.clientOut[1] = <<5, 255>>
             /\ tun.clientConn = "destroyed"
             /\ tun.requestBuffer = <<>>
             /\ tun.serverConn = "none"


\* the request handler has read the four fixed bytes of a request with version 5 and
\* a zero reserved byte
RequestHeader ==
    /\ Len(tun.requestBuffer) >= 4
    /\ tun.requestBuffer[1] = 5
    /\ tun.requestBuffer[3] = 0

\* the remote server was dialled for the tunnel
Dialled == \E i \in 1..Len(tun.log) : tun.log[i].ev = "connectToServer"

\* C16: unsupported command.  For a request of version 5 with a zero reserved byte and
\* a command other than CONNECT, the last thing written to the client is a reply
\* whose second byte is 07, the client connection is closed, and the remote server is
\* never dialled.
C16_CommandNotSupported ==
    (RequestHeader /\ tun.requestBuffer[2] # 1) =>
        /\ tun.clientOut # <<>>
        /\ tun.clientOut[Len(tun.clientOut)][1] = 5
        /\ tun.clientOut[Len(tun.clientOut)][2] = 7
        /\ tun.clientConn = "destroyed"
        /\ tun.serverConn = "none"
        /\ ~Dialled

\* a BIND request was answered
C16_Witness ==
    /\ RequestHeader
    /\ tun.requestBuffer[2] = 2
    /\ Len(tun.clientOut) = 2
    /\ tun.clientOut[2] = Reply(7)
    /\ tun.clientConn = "destroyed"


\* the records written into the encryptor
EncryptorWrites ==
    {tun.log[i].data : i \in {j \in 1..Len(tun.log) : tun.log[j].ev = "encryptor.write"}}

\* the request read so far is a CONNECT of the address type
ConnectRequest(addrType) ==
    /\ RequestHeader
    /\ tun.requestBuffer[2] = 1
    /\ tun.requestBuffer[4] = addrType

\* C17: IPv6 is rejected.  For a CONNECT request with ATYP 04 the last thing written
\* to the client is a reply with REP 08, the client connection is closed, the remote
\* server is not dialled and no record of ATYP 04 is written into the encryptor.
C17_RejectsIPv6 ==
    ConnectRequest(4) =>
        /\ tun.clientOut # <<>>
        /\ tun.clientOut[Len(tun.clientOut)] = Reply(8)
        /\ tun.clientConn = "destroyed"
        /\ ~Dialled
        /\ \A rec \in EncryptorWrites : rec = <<>> \/ rec[1] # 4

\* C18: an empty domain is rejected.  For a CONNECT request with ATYP 03 and a domain
\* length byte of 0 the remote server is not dialled and no record is written into
\* the encryptor.
C18_RejectsEmptyDomain ==
    (ConnectRequest(3) /\ Len(tun.requestBuffer) >= 5 /\ tun.requestBuffer[5] = 0) =>
        /\ ~Dialled
        /\ tun.serverConn = "none"
        /\ EncryptorWrites = {}


(***************************************************************************)
(* The relay with both directions at work: the client's bytes arrive in    *)
(* 'data' events of any size while the remote server writes and its bytes  *)
(* arrive whole or cut after a chunk header, and the connection to the     *)
(* server may break.                                                       *)
(***************************************************************************)
NextRelay ==
    \/ ClientHello
    \/ ClientConnects
    \/ ClientPayload
    \/ ClientDataAny
    \/ ConnectOne
    \/ RemoteSend
    \/ ServerDataWhole
    \/ ServerDataHeader
    \/ ServerError

SpecRelay == InitTunnel /\ [][NextRelay]_vars

\* the 'data' events of clientConn after the request: those that found no listener
\* and those the pipe wrote into the encryptor (the write that follows 'connect' is
\* the target address)
PayloadEvents ==
    {i \in 1..Len(tun.log) :
        \/ tun.log[i].ev = "data lost"
        \/ tun.log[i].ev = "encryptor.write" /\ tun.log[i - 1].ev # "connect"}

\* the bytes read from the client after the request, up to event i of the log
RECURSIVE PayloadRead(_)
PayloadRead(i) ==
    IF i = 0 THEN <<>>
    ELSE PayloadRead(i - 1) \o (IF i \in PayloadEvents THEN tun.log[i].data ELSE <<>>)

\* the plaintext the remote server gets out of what was written to serverConn
RemoteGot ==
    Concat(DecTransform(NewDecryptor(tun.method, tun.password), Concat(tun.serverOut)).out)

\* C19: ordering.  In each direction the bytes delivered are a prefix of the bytes read:
\* the remote server gets the target address and then a prefix of the bytes read from
\* the client after the request, and the client gets, after the two replies, a prefix
\* of the bytes the remote server wrote.
C19_InOrder ==
    /\ IsPrefix(RemoteGot, tun.targetAddr \o PayloadRead(Len(tun.log)))
    /\ IsPrefix(RelayedToClient, Concat(plainIn))

\* the same for the bytes read from the time the pipes are set up, on a tunnel whose
\* connection to the server did not break
InOrderPiped ==
    (\A i \in 1..Len(tun.log) : tun.log[i].ev \notin {"data lost", "server error"}) =>
        C19_InOrder


(***************************************************************************)
(* ShadowsocksLocal with several tunnels.  start() creates the listener;   *)
(* for each connection it accepts, handleSocksClient and the functions it  *)
(* calls create the buffers, the sockets and the cipher streams of the     *)
(* tunnel in their own scopes, and every listener they register closes     *)
(* over those.  The instance itself holds the configuration and the        *)
(* listener.                                                               *)
(***************************************************************************)
MaxTunnels == 2

\* the instance when start() has resolved: listen(localPort) names no host, so the
\* listener is bound to the unspecified address, that is to every interface
start(method, password) ==
    [server     |-> "listening",   \* "null", "listening" or "closed"
     address    |-> "unspecified", \* the address the listener is bound to
     method     |-> method,
     password   |-> password,
     tunnels    |-> <<>>,
     arrivals   |-> <<>>,          \* the interface each accepted connection came in on
     stopResult |-> "none"]        \* how the promise of the last stop() stands

\* the connection listener of the server: handleSocksClient(clientConn)
handleSocksClient(l) ==
    [l EXCEPT !.tunnels = Append(@, NewTunnel(l.method, l.password))]

\* a variant of tunnelEvent for listeners that share their state among the tunnels
tunnelEventShared(l, i, t) == [l EXCEPT !.tunnels = [j \in DOMAIN @ |-> t]]

\* a listener of tunnel i has run and left the tunnel as t
tunnelEvent(l, i, t) == [l EXCEPT !.tunnels[i] = t]

\* the method of the configuration
LocalMethods == {"aes-128-gcm"}

InitLocal ==
    /\ \E m \in LocalMethods, pw \in Passwords :
          /\ enc = NewEncryptor(m, pw)
          /\ dec = NewDecryptor(m, pw)
          /\ local = start(m, pw)
    /\ InitCommon
    /\ tun = NoTunnel

\* what the client of a tunnel sends next: a greeting, good or of a wrong version; a
\* request, CONNECT or BIND; a payload
LocalScript(stage) ==
    IF stage = 0 THEN {<<5, 1, 0>>, <<4, 1, 0>>}
    ELSE IF stage = 1 THEN {RequestIPv4, <<5, 2, 0, 1, 127, 0, 0, 1, 0, 80>>}
    ELSE IF stage = 2 THEN ClientBufs
    ELSE {}

\* bytes from the remote server that are no chunk of its stream: a salt and a length
\* field that fails authentication
Junk(t) == Fill(AEAD_METHODS[t.method].saltSize + 18, 0)

\* the server accepts a connection
Accept ==
    /\ local.server = "listening"
    /\ Len(local.tunnels) < MaxTunnels
    /\ local' = handleSocksClient(local)
    /\ UNCHANGED <<FramerVars, tun>>

\* a 'data' event of clientConn of tunnel i with what its client sends next
LocalClientData(i) ==
    /\ local.tunnels[i].clientConn = "open"
    /\ \E b \in LocalScript(local.tunnels[i].clientStage) :
          local' = tunnelEvent(local, i,
                       clientData([local.tunnels[i] EXCEPT !.clientStage = @ + 1], b))
    /\ UNCHANGED <<FramerVars, tun>>

\* the 'connect' event of serverConn of tunnel i
LocalConnect(i) ==
    /\ local.tunnels[i].serverConn = "connecting"
    /\ local' = tunnelEvent(local, i,
                    onConnect(local.tunnels[i],
                              Fill(AEAD_METHODS[local.method].saltSize, 0)))
    /\ UNCHANGED <<FramerVars, tun>>

\* an 'error' event of serverConn of tunnel i, during the dial or the relay
LocalServerError(i) ==
    /\ local.tunnels[i].serverConn \in {"connecting", "open"}
    /\ local' = tunnelEvent(local, i, onServerError(local.tunnels[i]))
    /\ UNCHANGED <<FramerVars, tun>>

\* the 'timeout' event of serverConn of tunnel i
LocalServerTimeout(i) ==
    /\ local.tunnels[i].serverConn \in {"connecting", "open"}
    /\ local' = tunnelEvent(local, i, onServerTimeout(local.tunnels[i]))
    /\ UNCHANGED <<FramerVars, tun>>

\* an 'error' event of clientConn of tunnel i
LocalClientError(i) ==
    /\ local.tunnels[i].clientConn = "open"
    /\ local' = tunnelEvent(local, i, onClientError(local.tunnels[i]))
    /\ UNCHANGED <<FramerVars, tun>>

\* a 'data' event of serverConn of tunnel i with bytes that fail authentication
LocalServerJunk(i) ==
    /\ local.tunnels[i].serverConn = "open"
    /\ local' = tunnelEvent(local, i,
                    serverData(local.tunnels[i], Junk(local.tunnels[i])))
    /\ UNCHANGED <<FramerVars, tun>>

NextLocal ==
    \/ Accept
    \/ \E i \in 1..Len(local.tunnels) : LocalClientData(i)
    \/ \E i \in 1..Len(local.tunnels) : LocalConnect(i)
    \/ \E i \in 1..Len(local.tunnels) : LocalServerError(i)
    \/ \E i \in 1..Len(local.tunnels) : LocalServerTimeout(i)
    \/ \E i \in 1..Len(local.tunnels) : LocalClientError(i)
    \/ \E i \in 1..Len(local.tunnels) : LocalServerJunk(i)

SpecLocal == InitLocal /\ [][NextLocal]_vars

\* the events that are failures of a tunnel
FailureEvents == {"server error", "server timeout", "client error", "decryptor error",
                  "encryptor error"}

\* the tunnel has failed: a failure event is in its log, or its handlers closed the
\* client connection on a protocol error
Failed(t) ==
    \/ \E k \in 1..Len(t.log) : t.log[k].ev \in FailureEvents
    \/ t.clientConn = "destroyed"

Interfaces == {"127.0.0.1", "192.0.2.1"}

\* new ShadowsocksLocal(config): this.server is null
ShadowsocksLocal(method, password) ==
    [start(method, password) EXCEPT !.server = "null", !.address = "none"]

\* a variant of stop that also destroys the client sockets of the tunnels
stopDestroysTunnels(l) ==
    IF l.server = "null" THEN [l EXCEPT !.stopResult = "resolved"]
    ELSE [l EXCEPT !.server = "closed", !.stopResult = "pending",
                   !.tunnels = [j \in DOMAIN @ |-> DestroyClient(@[j])]]

\* stop(): resolves at once without a server; else server.close(), whose callback
\* comes when the connections have ended, or with an error when the server is not
\* listening
stop(l) ==
    IF l.server = "null" THEN [l EXCEPT !.stopResult = "resolved"]
    ELSE IF l.server = "listening"
         THEN [l EXCEPT !.server = "closed", !.stopResult = "pending"]
         ELSE [l EXCEPT !.stopResult = "rejected"]

InitStop ==
    /\ \E m \in LocalMethods, pw \in Passwords :
          /\ enc = NewEncryptor(m, pw)
          /\ dec = NewDecryptor(m, pw)
          /\ local = ShadowsocksLocal(m, pw)
    /\ InitCommon
    /\ tun = NoTunnel

\* start() on a new instance
Start ==
    /\ local.server = "null"
    /\ local' = [start(local.method, local.password) EXCEPT
                    !.stopResult = local.stopResult]
    /\ UNCHANGED <<FramerVars, tun>>

Stop ==
    /\ local' = stop(local)
    /\ UNCHANGED <<FramerVars, tun>>

\* a connection arrives on an interface; a listening server bound to that interface
\* or to the unspecified address accepts it
AcceptOn(iface) ==
    /\ local.server = "listening"
    /\ local.address \in {"unspecified", iface}
    /\ Len(local.tunnels) < MaxTunnels
    /\ local' = [handleSocksClient(local) EXCEPT !.arrivals = Append(@, iface)]
    /\ UNCHANGED <<FramerVars, tun>>

\* what a well-behaved client sends next: the greeting, a CONNECT request, a payload
StopScript(stage) ==
    IF stage = 0 THEN {<<5, 1, 0>>}
    ELSE IF stage = 1 THEN {RequestIPv4}
    ELSE IF stage = 2 THEN ClientBufs
    ELSE {}

\* a 'data' event of clientConn of tunnel i with what its client sends next, once the
\* last thing it sent was answered
StopClientData(i) ==
    /\ local.tunnels[i].clientConn = "open"
    /\ local.tunnels[i].handler # "none"
    /\ \E b \in StopScript(local.tunnels[i].clientStage) :
          local' = tunnelEvent(local, i,
                       clientData([local.tunnels[i] EXCEPT !.clientStage = @ + 1], b))
    /\ UNCHANGED <<FramerVars, tun>>

NextStop ==
    \/ Start
    \/ Stop
    \/ \E iface \in Interfaces : AcceptOn(iface)
    \/ \E i \in 1..Len(local.tunnels) : StopClientData(i)
    \/ \E i \in 1..Len(local.tunnels) : LocalConnect(i)
    \/ \E i \in 1..Len(local.tunnels) : LocalClientError(i)

SpecStop == InitStop /\ [][NextStop]_vars

\* C21: administrative stop.  Once stop() has closed the listener it stays closed and
\* no tunnel is added; the step of stop() leaves every tunnel as it was; and stop()
\* on an instance that was never started resolves.
C21_Stop ==
    [][/\ local.server = "closed" =>
             /\ local'.server = "closed"
             /\ Len(local'.tunnels) = Len(local.tunnels)
       /\ local'.stopResult # local.stopResult => local'.tunnels = local.tunnels
       /\ local'.server = "null" => local'.stopResult \in {"none", "resolved"}]_vars

\* after stop() a tunnel accepted before it has connected and relays the payload of
\* its client
C21_Witness ==
    /\ local.server = "closed"
    /\ local.stopResult = "pending"
    /\ Len(local.tunnels) >= 1
    /\ local.tunnels[1].handler = "pipe"
    /\ local.tunnels[1].clientConn = "open"
    /\ local.tunnels[1].serverConn = "open"
    /\ Len(local.tunnels[1].encIn) = 2
    /\ Len(local.tunnels[1].serverOut) > 1

\* C22: loopback only.  Every connection the listener accepted came in on 127.0.0.1.
C22_LoopbackOnly ==
    \A k \in 1..Len(local.arrivals) : local.arrivals[k] = "127.0.0.1"


\* the master key of a password as the specification gives it: the first keyLen bytes
\* of d_0 || d_1 with d_0 = MD5(password), d_1 = MD5(d_0 || password); two rounds
\* cover every suite
MasterKey(password, keyLen) ==
    LET d0 == MD5(password)
        d1 == MD5(d0 \o password)
    IN  SubSeq(d0 \o d1, 1, keyLen)

\* the stream has derived its subkey as the specification says
SubkeyDerived(s) ==
    /\ Len(s.key) = s.keySize
    /\ s.key = HkdfSha1(MasterKey(s.password, s.keySize), s.salt, SubkeyInfo, s.keySize)

\* C23: key derivation.  The subkey an encryptor or a decryptor holds is HKDF-SHA1 of
\* the EVP_BytesToKey master key of its password with its salt and the info
\* "ss-subkey", of the key size of the suite; an encryptor and a decryptor with the
\* same password and salt hold the same subkey.
C23_KeyDerivation ==
    /\ enc.key # <<>> => SubkeyDerived(enc)
    /\ dec.key # <<>> => SubkeyDerived(dec)
    /\ (enc.key # <<>> /\ dec.key # <<>> /\ enc.password = dec.password
            /\ enc.salt = dec.salt) => enc.key = dec.key

\* both ends of a suite with 32-byte keys have derived their subkey from the same salt
C23_Witness ==
    /\ enc.keySize = 32
    /\ Len(enc.key) = 32
    /\ dec.salt = enc.salt
    /\ dec.key = enc.key


\* the writes so far that were not empty
NonEmptyWrites == Cardinality({i \in 1..Len(plainIn) : plainIn[i] # <<>>})

\* C24: empty input.  While every buffer written to the encryptor was empty it has
\* emitted nothing and is still to generate its salt; and empty writes never advance
\* the nonce counter: it stands at two per non-empty write, with two seals each.
C24_EmptyInput ==
    /\ NonEmptyWrites = 0 => (enc.isFirstChunk /\ encOut = <<>> /\ enc.salt = <<>>)
    /\ Len(sealLog) = 2 * NonEmptyWrites
    /\ enc.chunkId = <<2 * NonEmptyWrites, 0, 0, 0>>

\* the same without the case of an empty first write
EmptyInputStreaming ==
    /\ Len(sealLog) = 2 * NonEmptyWrites
    /\ enc.chunkId = <<2 * NonEmptyWrites, 0, 0, 0>>
    /\ Len(encOut) = (IF enc.isFirstChunk THEN 0 ELSE 1) + NonEmptyWrites


\* C25: the nonce counter.  The nonce of an encryptor and of a decryptor is at all
\* times the 12-byte little-endian encoding of the number of updateNonce calls made
\* so far: the count in bytes 0..7 and zero in bytes 8..11.
C25_NonceCounter ==
    /\ enc.nonce = NonceLE(enc.chunkId)
    /\ dec.nonce = NonceLE(dec.chunkId)


\* the buffer is a 10-byte SOCKS5 reply
IsReply(b) == Len(b) = 10 /\ b = Reply(b[2])

\* the positions of the replies among the buffers sent to the client
Replies == {k \in 1..Len(tun.clientOut) : IsReply(tun.clientOut[k])}

\* C26: one reply.  At most one 10-byte reply is sent to a client, and nothing sent
\* after the success reply is a reply.
C26_OneReply ==
    /\ Cardinality(Replies) <= 1
    /\ \A k \in Replies :
          tun.clientOut[k] = SuccessReply => \A m \in Replies : m <= k


(***************************************************************************)
(* The client's stream: a client that sends the greeting 05 01 00, the     *)
(* CONNECT request for a domain and a payload, without waiting for the     *)
(* replies; its bytes arrive in 'data' events cut anywhere, the dial       *)
(* completes at any moment, and nothing fails.                             *)
(***************************************************************************)
NextStream ==
    \/ ClientHello
    \/ ClientConnects
    \/ ClientPayload
    \/ ClientDataAny
    \/ ConnectOne

SpecStream == InitTunnel /\ [][NextStream]_vars

\* the payload of the client's script
StreamPayload == CHOOSE b \in ClientBufs : TRUE

\* everything the client sends, in order
StreamScript == <<5, 1, 0>> \o RequestDomain \o StreamPayload

\* what the client has sent so far
StreamSent ==
    SubSeq(StreamScript, 1,
           IF tun.clientStage = 0 THEN 0
           ELSE IF tun.clientStage = 1 THEN 3
           ELSE IF tun.clientStage = 2 THEN 3 + Len(RequestDomain)
           ELSE Len(StreamScript))

\* the bytes of the stream that 'data' events have delivered so far
StreamRead == SubSeq(StreamSent, 1, Len(StreamSent) - Len(tun.clientIn))

\* the part of the payload that was read
PayloadOfStream == SubSeq(StreamRead, 4 + Len(RequestDomain), Len(StreamRead))

\* C27: no byte of the client's stream is dropped.  Once the greeting and the request
\* were read, however they were cut into reads, the request is parsed and the remote
\* server dialled; and once the connection to the server is made, the server gets the
\* target address of the request followed by every byte of payload read so far.
C27_NoByteDropped ==
    /\ Len(StreamRead) >= 3 + Len(RequestDomain) => Dialled
    /\ tun.serverConn = "open" =>
          RemoteGot = SubSeq(RequestDomain, 4, Len(RequestDomain)) \o PayloadOfStream

\* the same for a client that waits for each reply before it sends on
NoByteDroppedInStep ==
    (\A i \in 1..Len(tun.log) : tun.log[i].ev # "data lost")
        /\ Len(tun.handshakeBuffer) <= 3 /\ Len(tun.requestBuffer) <= Len(RequestDomain)
    => (/\ (Len(StreamRead) >= 3 + Len(RequestDomain) => Dialled)
        /\ (tun.serverConn = "open" =>
              RemoteGot = SubSeq(RequestDomain, 4, Len(RequestDomain)) \o PayloadOfStream))


\* the client connection failed after the request was accepted and before the dial
\* completed
ClientGoneInDial ==
    \E i, j \in 1..Len(tun.log) :
        /\ i < j
        /\ tun.log[i].ev = "connectToServer"
        /\ tun.log[j].ev = "client error"
        /\ \A k \in 1..(j - 1) : tun.log[k].ev # "connect"

\* C28: a client that vanishes during the dial.  When the client connection failed
\* while the dial was pending, the connection to the server is never left open once
\* the dial is over, and no target address record is sent on it.
C28_ClientGoneInDial ==
    ClientGoneInDial =>
        /\ tun.serverConn # "open"
        /\ tun.serverOut = <<>>

====
